---- MODULE Spec2Model ----
(***************************************************************************)
(* The Redfish management interface of ironic                              *)
(* (ironic/drivers/modules/redfish/management.py) as a state machine over  *)
(* the remote resource graph it reads and writes.                          *)
(*                                                                         *)
(* The layer itself is stateless: the state is the remote system (its boot *)
(* settings, the indicator LEDs and the sensor readings of its chassis and *)
(* drives), the position of a set_boot_device call between its read and    *)
(* its write, and the outcome of the call that completed last.             *)
(*                                                                         *)
(* Python values are strings: None is "None", True/False are "True" and    *)
(* "False", sushy's constants are named after themselves, ironic's         *)
(* abstract values are the strings ironic.common gives them.  A dict is    *)
(* the sequence of its <<key, value>> items in insertion order, the last   *)
(* item of a key being the one a lookup finds.                             *)
(***************************************************************************)
EXTENDS Integers, Sequences, FiniteSets, TLC

VARIABLES
    focus,      \* the part of the remote system a behaviour exercises:
                \* "boot", "indicators" or "sensors"
    boot,       \* system.boot of the remote system: target, enabled, mode
    pc,         \* "idle", or "sbd_write": set_boot_device between read and write
    frame,      \* the locals of the set_boot_device call in progress
    system,     \* the rest of the remote system: uuid, indicator_led, chassis, storage
    last        \* the call that completed and has not returned yet: op, task,
                \* arguments, outcome, remote accesses; NoCall when none

vars == <<focus, boot, pc, frame, system, last>>

None == "None"

----------------------------------------------------------------------------
(* Python dicts *)

Keys(d) == {d[i][1] : i \in DOMAIN d}

Values(d) == {d[i][2] : i \in DOMAIN d}

Has(d, k) == k \in Keys(d)

\* d[k]; the callers test Has first, a missing key being Python's KeyError
Lookup(d, k) ==
    LET last_i == CHOOSE i \in DOMAIN d :
                      /\ d[i][1] = k
                      /\ \A j \in DOMAIN d : d[j][1] = k => j <= i
    IN  d[last_i][2]

\* d.get(k)
Get(d, k) == IF Has(d, k) THEN Lookup(d, k) ELSE None

\* {v: k for k, v in d.items()}
Reversed(d) == [i \in DOMAIN d |-> <<d[i][2], d[i][1]>>]

\* the truth value Python gives a string or None in `not x`, `if x`, `a and x`
Truthy(x) == x \notin {None, ""}

----------------------------------------------------------------------------
(* The translation tables *)

\* the CD target mapped to the disk device
BOOT_DEVICE_MAP_cd_as_disk ==
    << <<"BOOT_SOURCE_TARGET_PXE", "pxe">>,
       <<"BOOT_SOURCE_TARGET_HDD", "disk">>,
       <<"BOOT_SOURCE_TARGET_CD", "disk">>,
       <<"BOOT_SOURCE_TARGET_BIOS_SETUP", "bios">> >>

BOOT_DEVICE_MAP ==
    << <<"BOOT_SOURCE_TARGET_PXE", "pxe">>,
       <<"BOOT_SOURCE_TARGET_HDD", "disk">>,
       <<"BOOT_SOURCE_TARGET_CD", "cdrom">>,
       <<"BOOT_SOURCE_TARGET_BIOS_SETUP", "bios">> >>

BOOT_DEVICE_MAP_REV == Reversed(BOOT_DEVICE_MAP)

BOOT_MODE_MAP ==
    << <<"BOOT_SOURCE_MODE_UEFI", "uefi">>,
       <<"BOOT_SOURCE_MODE_BIOS", "bios">> >>

BOOT_MODE_MAP_REV == Reversed(BOOT_MODE_MAP)

BOOT_DEVICE_PERSISTENT_MAP ==
    << <<"BOOT_SOURCE_ENABLED_CONTINUOUS", "True">>,
       <<"BOOT_SOURCE_ENABLED_ONCE", "False">> >>

BOOT_DEVICE_PERSISTENT_MAP_REV == Reversed(BOOT_DEVICE_PERSISTENT_MAP)

INDICATOR_MAP ==
    << <<"INDICATOR_LED_LIT", "ON">>,
       <<"INDICATOR_LED_OFF", "OFF">>,
       <<"INDICATOR_LED_BLINKING", "BLINKING">>,
       <<"INDICATOR_LED_UNKNOWN", "UNKNOWN">> >>

INDICATOR_MAP_REV == Reversed(INDICATOR_MAP)

----------------------------------------------------------------------------
(* The values a remote system reports and a caller passes *)

\* BootSourceOverrideTarget: the four mapped targets, one the table does not
\* know, and absent
RemoteTargets == Keys(BOOT_DEVICE_MAP) \cup {"BOOT_SOURCE_TARGET_USB", None}

\* BootSourceOverrideEnabled: continuous, once, disabled, and absent
RemoteEnabled == Keys(BOOT_DEVICE_PERSISTENT_MAP)
                     \cup {"BOOT_SOURCE_ENABLED_DISABLED", None}

\* BootSourceOverrideMode
RemoteModes == Keys(BOOT_MODE_MAP) \cup {None}

BootStates == [target : RemoteTargets, enabled : RemoteEnabled, mode : RemoteModes]

\* ironic.common.boot_devices: the supported four and one redfish does not map
Devices == {"pxe", "disk", "cdrom", "bios", "safe"}

\* ironic.common.boot_modes, and a value outside them
Modes == {"uefi", "bios", "secure"}

Persistents == {"True", "False"}

\* the point of a call at which the remote endpoint fails, if any
FailPoints == {"none", "get_system", "write"}

----------------------------------------------------------------------------
(* The collaborators *)

\* task_manager.require_exclusive_lock lets the call through
require_exclusive_lock(shared) == ~shared

\* one remote access of a call and whether it succeeded
Access(fn, args, ok) == [fn |-> fn, args |-> args, ok |-> ok]

\* the outcome of a call: the exception that reached the caller ("ok" when
\* none), the value returned (for an exception, what its message names), the
\* remote accesses made, the remote state after
Outcome(exc, ret, calls, remote) ==
    [exc |-> exc, ret |-> ret, calls |-> calls, remote |-> remote]

\* System.set_system_boot_options(target, enabled=enabled)
set_system_boot_options(b, target, enabled) ==
    [b EXCEPT !.target = target,
              !.enabled = IF enabled = None THEN @ ELSE enabled]

\* System.set_system_boot_source(target, enabled=enabled, mode=mode)
set_system_boot_source(b, target, enabled, mode) ==
    [target |-> target, enabled |-> enabled, mode |-> mode]

----------------------------------------------------------------------------
(* set_boot_device *)

\* the override always written, whatever the remote system reports
persistence_override_always(desired, current) == desired

\* the override never written
persistence_override_never(desired, current) == None

\* enabled = desired if desired != current else None
persistence_override(desired, current) ==
    IF desired # current THEN desired ELSE None

\* the locals after system = get_system(node) and the read of system.boot
set_boot_device_read(b, device, persistent) ==
    LET desired_persistence == Lookup(BOOT_DEVICE_PERSISTENT_MAP_REV, persistent)
        current_persistence == b.enabled
    IN  [device  |-> device,
         persistent |-> persistent,
         current |-> current_persistence,
         enabled |-> persistence_override(desired_persistence, current_persistence)]

\* the try block: the write and the wrapping of its failure
set_boot_device_write(b, fr, f) ==
    LET got == <<Access("get_system", <<>>, TRUE)>> IN
    IF ~Has(BOOT_DEVICE_MAP_REV, fr.device)
    THEN Outcome("KeyError", None, got, b)
    ELSE LET target == Lookup(BOOT_DEVICE_MAP_REV, fr.device)
             call(ok) == Access("set_system_boot_options", <<target, fr.enabled>>, ok)
         IN  IF f = "write"
             THEN Outcome("RedfishError", None, Append(got, call(FALSE)), b)
             ELSE Outcome("ok", None, Append(got, call(TRUE)),
                          set_system_boot_options(b, target, fr.enabled))

\* a call the decorator refuses, or whose get_system fails: no frame is made
set_boot_device_refused(shared, f) ==
    IF ~require_exclusive_lock(shared)
    THEN Outcome("ExclusiveLockRequired", None, <<>>, boot)
    ELSE Outcome("RedfishError", None, <<Access("get_system", <<>>, FALSE)>>, boot)

NoCall == [op |-> "none", shared |-> FALSE, args |-> None, exc |-> "ok",
           ret |-> None, calls |-> <<>>]

Finished(op, shared, args, out) ==
    [op |-> op, shared |-> shared, args |-> args, exc |-> out.exc,
     ret |-> out.ret, calls |-> out.calls]

\* no call is in progress and the last one has returned
Ready(part) == focus = part /\ pc = "idle" /\ last.op = "none"

\* the completed call returns to its caller
Return ==
    /\ pc = "idle"
    /\ last.op # "none"
    /\ last' = NoCall
    /\ UNCHANGED <<focus, boot, pc, frame, system>>

SetBootDeviceRefused ==
    /\ Ready("boot")
    /\ \E shared \in BOOLEAN, device \in Devices, persistent \in Persistents,
          f \in {"none", "get_system"} :
          /\ ~require_exclusive_lock(shared) \/ f = "get_system"
          /\ last' = Finished("set_boot_device", shared,
                              [device |-> device, persistent |-> persistent,
                               current |-> None, enabled |-> None],
                              set_boot_device_refused(shared, f))
    /\ UNCHANGED <<focus, boot, pc, frame, system>>

SetBootDeviceRead ==
    /\ Ready("boot")
    /\ \E device \in Devices, persistent \in Persistents :
          frame' = set_boot_device_read(boot, device, persistent)
    /\ pc' = "sbd_write"
    /\ UNCHANGED <<focus, boot, system, last>>

SetBootDeviceWrite ==
    /\ pc = "sbd_write"
    /\ \E f \in {"none", "write"} :
          LET out == set_boot_device_write(boot, frame, f) IN
          /\ boot' = out.remote
          /\ last' = Finished("set_boot_device", FALSE, frame, out)
    /\ pc' = "idle"
    /\ frame' = None
    /\ UNCHANGED <<focus, system>>

----------------------------------------------------------------------------
(* set_boot_mode *)

\* the check of the boot device alone
boot_mode_precondition_target_only(b) ==
    IF ~Truthy(b.target) THEN "boot device is not set" ELSE ""

\* the two checks before the write: the precondition that fails, "" when none
boot_mode_precondition(b) ==
    IF ~Truthy(b.target) THEN "boot device is not set"
    ELSE IF ~Truthy(b.enabled) THEN "boot source override is not set"
    ELSE ""

set_boot_mode(b, shared, mode, f) ==
    IF ~require_exclusive_lock(shared)
    THEN Outcome("ExclusiveLockRequired", None, <<>>, b)
    ELSE IF f = "get_system"
    THEN Outcome("RedfishError", None, <<Access("get_system", <<>>, FALSE)>>, b)
    ELSE
    LET got == <<Access("get_system", <<>>, TRUE)>>
        boot_device == b.target
        boot_override == b.enabled
    IN  IF boot_mode_precondition(b) # ""
        THEN Outcome("RedfishError", boot_mode_precondition(b), got, b)
        ELSE IF ~Has(BOOT_MODE_MAP_REV, mode)
        THEN Outcome("KeyError", None, got, b)
        ELSE
        LET m == Lookup(BOOT_MODE_MAP_REV, mode)
            call(ok) == Access("set_system_boot_source",
                               <<boot_device, boot_override, m>>, ok)
        IN  IF f = "write"
            THEN Outcome("RedfishError", None, Append(got, call(FALSE)), b)
            ELSE Outcome("ok", None, Append(got, call(TRUE)),
                         set_system_boot_source(b, boot_device, boot_override, m))

SetBootMode ==
    /\ Ready("boot")
    /\ \E shared \in BOOLEAN, mode \in Modes, f \in FailPoints :
          LET out == set_boot_mode(boot, shared, mode, f) IN
          /\ boot' = out.remote
          /\ last' = Finished("set_boot_mode", shared,
                              [mode |-> mode, before |-> boot], out)
    /\ UNCHANGED <<focus, pc, frame, system>>

----------------------------------------------------------------------------
(* get_boot_device, get_boot_mode *)

get_boot_device(b, f) ==
    IF f = "get_system"
    THEN Outcome("RedfishError", None, <<Access("get_system", <<>>, FALSE)>>, b)
    ELSE Outcome("ok",
                 [boot_device |-> Get(BOOT_DEVICE_MAP, b.target),
                  persistent |-> Get(BOOT_DEVICE_PERSISTENT_MAP, b.enabled)],
                 <<Access("get_system", <<>>, TRUE)>>, b)

get_boot_mode(b, f) ==
    IF f = "get_system"
    THEN Outcome("RedfishError", None, <<Access("get_system", <<>>, FALSE)>>, b)
    ELSE Outcome("ok", Get(BOOT_MODE_MAP, b.mode),
                 <<Access("get_system", <<>>, TRUE)>>, b)

GetBootDevice ==
    /\ Ready("boot")
    /\ \E shared \in BOOLEAN, f \in {"none", "get_system"} :
          last' = Finished("get_boot_device", shared, [before |-> boot],
                           get_boot_device(boot, f))
    /\ UNCHANGED <<focus, boot, pc, frame, system>>

GetBootMode ==
    /\ Ready("boot")
    /\ \E shared \in BOOLEAN, f \in {"none", "get_system"} :
          last' = Finished("get_boot_mode", shared, [before |-> boot],
                           get_boot_mode(boot, f))
    /\ UNCHANGED <<focus, boot, pc, frame, system>>

----------------------------------------------------------------------------
(* inject_nmi *)

\* reset_system outside any try: its failure reaches the caller as it is
inject_nmi_unwrapped(b, shared, f) ==
    IF ~require_exclusive_lock(shared)
    THEN Outcome("ExclusiveLockRequired", None, <<>>, b)
    ELSE IF f = "get_system"
    THEN Outcome("RedfishError", None, <<Access("get_system", <<>>, FALSE)>>, b)
    ELSE LET call(ok) == Access("reset_system", <<"RESET_NMI">>, ok) IN
         IF f = "write"
         THEN Outcome("SushyError", None,
                      <<Access("get_system", <<>>, TRUE), call(FALSE)>>, b)
         ELSE Outcome("ok", None,
                      <<Access("get_system", <<>>, TRUE), call(TRUE)>>, b)

inject_nmi(b, shared, f) ==
    IF ~require_exclusive_lock(shared)
    THEN Outcome("ExclusiveLockRequired", None, <<>>, b)
    ELSE IF f = "get_system"
    THEN Outcome("RedfishError", None, <<Access("get_system", <<>>, FALSE)>>, b)
    ELSE LET call(ok) == Access("reset_system", <<"RESET_NMI">>, ok) IN
         IF f = "write"
         THEN Outcome("RedfishError", None,
                      <<Access("get_system", <<>>, TRUE), call(FALSE)>>, b)
         ELSE Outcome("ok", None,
                      <<Access("get_system", <<>>, TRUE), call(TRUE)>>, b)

InjectNmi ==
    /\ Ready("boot")
    /\ \E shared \in BOOLEAN, f \in FailPoints :
          last' = Finished("inject_nmi", shared, [before |-> boot],
                           inject_nmi(boot, shared, f))
    /\ UNCHANGED <<focus, boot, pc, frame, system>>

----------------------------------------------------------------------------
(* The indicators: system, chassis, drives *)

MaxChassis == 2

MaxDrives == 1

\* indicator_led of a resource: a sushy value (lit or off here), or None
\* without the capability
LedValues == {"INDICATOR_LED_LIT", "INDICATOR_LED_OFF", None}

\* identifiers are unique within a kind and not across kinds: the first
\* chassis carries the system's uuid, the first drive the second chassis's
SystemUuid == "u1"

ChassisUuid(i) == "u" \o ToString(i)

DriveUuid(i) == "u" \o ToString(i + 1)

Resource(uuid, led) == [uuid |-> uuid, indicator_led |-> led]

ChassisLists ==
    UNION {{[i \in 1..n |-> Resource(ChassisUuid(i), leds[i])] :
               leds \in [1..n -> LedValues]} : n \in 0..MaxChassis}

DriveLists ==
    UNION {{[i \in 1..n |-> Resource(DriveUuid(i), leds[i])] :
               leds \in [1..n -> LedValues]} : n \in 0..MaxDrives}

\* system.simple_storage: absent (None), or the collection with its drives
Storages == {[present |-> FALSE, drives |-> <<>>]}
                \cup {[present |-> TRUE, drives |-> ds] : ds \in DriveLists}

IndicatorSystems ==
    {[uuid |-> SystemUuid, indicator_led |-> l, chassis |-> cs, simple_storage |-> st] :
        l \in LedValues, cs \in ChassisLists, st \in Storages}

\* ironic.common.components
Components == {"system", "chassis", "disk"}

IndicatorIds == {"u1", "u2", "u3"}

\* ironic.common.indicator_states, and a value outside them
States == {"ON", "OFF", "DIM"}

\* the index of the first resource of the list whose uuid is the indicator, 0
\* when none is
FirstMatch(resources, indicator) ==
    IF \E i \in DOMAIN resources : resources[i].uuid = indicator
    THEN CHOOSE i \in DOMAIN resources :
             /\ resources[i].uuid = indicator
             /\ \A j \in DOMAIN resources : resources[j].uuid = indicator => i <= j
    ELSE 0

\* <resource>.set_indicator_led(value) on the system, a chassis or a drive
set_indicator_led(sys, on, value) ==
    CASE on[1] = "system"  -> [sys EXCEPT !.indicator_led = value]
      [] on[1] = "chassis" -> [sys EXCEPT !.chassis[on[2]].indicator_led = value]
      [] on[1] = "disk"    -> [sys EXCEPT !.simple_storage.drives[on[2]].indicator_led = value]

\* <resource>.indicator_led
indicator_led(sys, on) ==
    CASE on[1] = "system"  -> sys.indicator_led
      [] on[1] = "chassis" -> sys.chassis[on[2]].indicator_led
      [] on[1] = "disk"    -> sys.simple_storage.drives[on[2]].indicator_led

\* the system's own indicator, whatever component kind was asked for
is_system_indicator_any_kind(sys, component, indicator) == indicator = sys.uuid

\* component == components.SYSTEM and indicator == system.uuid
is_system_indicator(sys, component, indicator) ==
    component = "system" /\ indicator = sys.uuid

\* the resource of the component kind that carries the indicator, after the
\* accesses `got`: found, with its place and the accesses made; or not found;
\* or the lazy read of the collection failed
Locate(sys, component, indicator, got, f) ==
    IF is_system_indicator(sys, component, indicator)
    THEN [found |-> TRUE, failed |-> FALSE, on |-> <<"system", 0>>, calls |-> got]
    ELSE IF component = "chassis"
    THEN IF f = "read"
         THEN [found |-> FALSE, failed |-> TRUE, on |-> <<"none", 0>>,
               calls |-> Append(got, Access("system.chassis", <<>>, FALSE))]
         ELSE LET i == FirstMatch(sys.chassis, indicator) IN
              [found |-> Len(sys.chassis) > 0 /\ i # 0, failed |-> FALSE,
               on |-> <<"chassis", i>>,
               calls |-> Append(got, Access("system.chassis", <<>>, TRUE))]
    ELSE IF component = "disk"
    THEN IF f = "read"
         THEN [found |-> FALSE, failed |-> TRUE, on |-> <<"none", 0>>,
               calls |-> Append(got, Access("system.simple_storage", <<>>, FALSE))]
         ELSE LET i == FirstMatch(sys.simple_storage.drives, indicator) IN
              [found |-> /\ sys.simple_storage.present
                         /\ Len(sys.simple_storage.drives) > 0
                         /\ i # 0,
               failed |-> FALSE, on |-> <<"disk", i>>,
               calls |-> Append(got, Access("system.simple_storage", <<>>, TRUE))]
    ELSE [found |-> FALSE, failed |-> FALSE, on |-> <<"none", 0>>, calls |-> got]

\* raise MissingParameterValue("Unknown indicator ... for component ...")
unknown_indicator(sys, component, indicator, calls) ==
    Outcome("MissingParameterValue",
            [indicator |-> indicator, component |-> component], calls, sys)

set_indicator_state(sys, component, indicator, state, f) ==
    IF f = "get_system"
    THEN Outcome("RedfishError", None, <<Access("get_system", <<>>, FALSE)>>, sys)
    ELSE
    LET loc == Locate(sys, component, indicator,
                      <<Access("get_system", <<>>, TRUE)>>, f)
    IN  IF loc.failed
        THEN Outcome("RedfishError", None, loc.calls, sys)
        ELSE IF ~loc.found
        THEN unknown_indicator(sys, component, indicator, loc.calls)
        ELSE IF ~Has(INDICATOR_MAP_REV, state)
        THEN Outcome("KeyError", None, loc.calls, sys)
        ELSE
        LET v == Lookup(INDICATOR_MAP_REV, state)
            call(ok) == Access("set_indicator_led", <<loc.on, v>>, ok)
        IN  IF f = "write"
            THEN Outcome("RedfishError", None, Append(loc.calls, call(FALSE)), sys)
            ELSE Outcome("ok", None, Append(loc.calls, call(TRUE)),
                         set_indicator_led(sys, loc.on, v))

get_indicator_state(sys, component, indicator, f) ==
    IF f = "get_system"
    THEN Outcome("RedfishError", None, <<Access("get_system", <<>>, FALSE)>>, sys)
    ELSE
    LET loc == Locate(sys, component, indicator,
                      <<Access("get_system", <<>>, TRUE)>>, f)
    IN  IF loc.failed
        THEN Outcome("RedfishError", None, loc.calls, sys)
        ELSE IF ~loc.found
        THEN unknown_indicator(sys, component, indicator, loc.calls)
        ELSE IF ~Has(INDICATOR_MAP, indicator_led(sys, loc.on))
        THEN Outcome("KeyError", None, loc.calls, sys)
        ELSE Outcome("ok", Lookup(INDICATOR_MAP, indicator_led(sys, loc.on)),
                     loc.calls, sys)

SetIndicatorState ==
    /\ Ready("indicators")
    /\ \E shared \in BOOLEAN, component \in Components, indicator \in IndicatorIds,
          state \in States, f \in {"none", "get_system", "read", "write"} :
          LET out == set_indicator_state(system, component, indicator, state, f) IN
          /\ system' = out.remote
          /\ last' = Finished("set_indicator_state", shared,
                              [component |-> component, indicator |-> indicator,
                               state |-> state, before |-> system], out)
    /\ UNCHANGED <<focus, boot, pc, frame>>

GetIndicatorState ==
    /\ Ready("indicators")
    /\ \E shared \in BOOLEAN, component \in Components, indicator \in IndicatorIds,
          f \in {"none", "get_system", "read"} :
          last' = Finished("get_indicator_state", shared,
                           [component |-> component, indicator |-> indicator,
                            before |-> system],
                           get_indicator_state(system, component, indicator, f))
    /\ UNCHANGED <<focus, boot, pc, frame, system>>

----------------------------------------------------------------------------
(* get_supported_indicators *)

\* the descriptor every indicator gets
properties == [readonly |-> FALSE, states |-> <<"BLINKING", "OFF", "ON">>]

\* the comprehension without its `if r.indicator_led`
indicators_of_all(resources) ==
    [u \in {resources[i].uuid : i \in DOMAIN resources} |-> properties]

\* {r.uuid: properties for r in resources if r.indicator_led}
indicators_of(resources) ==
    LET capable == {i \in DOMAIN resources : Truthy(resources[i].indicator_led)}
    IN  [u \in {resources[i].uuid : i \in capable} |-> properties]

\* whether the branch of a component kind is entered: component in (None, kind)
Selected(component, kind) == component \in {None, kind}

\* the chassis branch: its key in the result (when it sets one) and its accesses
chassis_branch(sys, component, fails) ==
    IF ~Selected(component, "chassis")
    THEN [set |-> FALSE, value |-> <<>>, calls |-> <<>>]
    ELSE IF "chassis" \in fails
    THEN [set |-> FALSE, value |-> <<>>,
          calls |-> <<Access("system.chassis", <<>>, FALSE)>>]
    ELSE [set |-> Len(sys.chassis) > 0, value |-> indicators_of(sys.chassis),
          calls |-> <<Access("system.chassis", <<>>, TRUE)>>]

\* the system branch: the read of system.indicator_led sits in a try of its
\* own, like the reads of the other two branches
system_branch(sys, component, fails) ==
    IF ~Selected(component, "system")
    THEN [set |-> FALSE, value |-> <<>>, calls |-> <<>>]
    ELSE IF "system" \in fails
    THEN [set |-> FALSE, value |-> <<>>,
          calls |-> <<Access("system.indicator_led", <<>>, FALSE)>>]
    ELSE [set |-> Truthy(sys.indicator_led),
          value |-> [u \in {sys.uuid} |-> properties],
          calls |-> <<Access("system.indicator_led", <<>>, TRUE)>>]

\* the drive branch
drive_branch(sys, component, fails) ==
    IF ~Selected(component, "disk")
    THEN [set |-> FALSE, value |-> <<>>, calls |-> <<>>]
    ELSE IF "disk" \in fails
    THEN [set |-> FALSE, value |-> <<>>,
          calls |-> <<Access("system.simple_storage", <<>>, FALSE)>>]
    ELSE [set |-> sys.simple_storage.present /\ Len(sys.simple_storage.drives) > 0,
          value |-> indicators_of(sys.simple_storage.drives),
          calls |-> <<Access("system.simple_storage", <<>>, TRUE)>>]

get_supported_indicators(sys, component, fails, f) ==
    IF f = "get_system"
    THEN Outcome("RedfishError", None, <<Access("get_system", <<>>, FALSE)>>, sys)
    ELSE
    LET branch == [k \in Components |->
                      CASE k = "chassis" -> chassis_branch(sys, component, fails)
                        [] k = "system"  -> system_branch(sys, component, fails)
                        [] k = "disk"    -> drive_branch(sys, component, fails)]
        indicators == [k \in {c \in Components : branch[c].set} |-> branch[k].value]
    IN  Outcome("ok", indicators,
                <<Access("get_system", <<>>, TRUE)>> \o branch["chassis"].calls
                    \o branch["system"].calls \o branch["disk"].calls,
                sys)

GetSupportedIndicators ==
    /\ Ready("indicators")
    /\ \E component \in Components \cup {None}, fails \in SUBSET Components,
          f \in {"none", "get_system"} :
          /\ f # "none" => fails = {}
          /\ last' = Finished("get_supported_indicators", TRUE,
                           [component |-> component, fails |-> fails,
                            before |-> system],
                           get_supported_indicators(system, component, fails, f))
    /\ UNCHANGED <<focus, boot, pc, frame, system>>

----------------------------------------------------------------------------
(* get_sensors_data *)

MaxStorages == 2

\* d.update(e)
Update(d, e) ==
    [k \in DOMAIN d \cup DOMAIN e |-> IF k \in DOMAIN e THEN e[k] ELSE d[k]]

\* the dict a loop of `d[key] = value` over the items builds
AsDict(items) == [k \in Keys(items) |-> Lookup(items, k)]

\* {field: getattr(resource, field) for field in fields if hasattr(resource, field)}
_sensor2dict(resource, fields) ==
    [field \in fields \cap DOMAIN resource |-> resource[field]]

\* a fan, a temperature, a power supply or a storage device as sushy gives it;
\* readings expose only some of the attributes the code asks for
Status == [health |-> "OK"]

Reading(identity) == [identity |-> identity, status |-> Status]

Device(name) == [name |-> name, status |-> Status]

SensorChassis(identity, fans, temperatures, power_supplies) ==
    [identity |-> identity,
     thermal |-> [fans |-> [i \in DOMAIN fans |-> Reading(fans[i])],
                  temperatures |->
                      [i \in DOMAIN temperatures |-> Reading(temperatures[i])]],
     power |-> [identity |-> "Power",
                power_supplies |->
                    [i \in DOMAIN power_supplies |-> Reading(power_supplies[i])]]]

SensorStorage(identity, names) ==
    [identity |-> identity, devices |-> [i \in DOMAIN names |-> Device(names[i])]]

\* the chassis a system may link to: local identifiers restart in every
\* chassis, and an identifier is any string the BMC chose
ChassisPool ==
    {SensorChassis("A", <<"0", "0@B">>, <<"0">>, <<"0">>),
     SensorChassis("B", <<"0">>, <<"0", "1">>, <<>>),
     SensorChassis("B@A", <<"0">>, <<>>, <<"0">>)}

\* the storage controllers: device names are labels, not identifiers
StoragePool ==
    {SensorStorage("1", <<"d0", "d1">>),
     SensorStorage("2", <<"d0">>),
     SensorStorage("3", <<"d0", "d0">>)}

\* the lists of at most n members of a pool, of distinct identity
Members(pool, n) ==
    UNION {{l \in [1..k -> pool] :
               \A i, j \in 1..k : i # j => l[i].identity # l[j].identity} :
           k \in 0..n}

SensorSystems ==
    {[identity |-> "S", chassis |-> cs, simple_storage |-> st] :
        cs \in Members(ChassisPool, MaxChassis),
        st \in Members(StoragePool, MaxStorages)}

_get_sensors_fan(chassis) ==
    LET fans == chassis.thermal.fans IN
    AsDict([i \in DOMAIN fans |->
        <<fans[i].identity \o "@" \o chassis.identity,
          Update(_sensor2dict(fans[i],
                     {"identity", "max_reading_range", "min_reading_range",
                      "reading", "reading_units", "serial_number",
                      "physical_context"}),
                 _sensor2dict(fans[i].status, {"state", "health"}))>>])

_get_sensors_temperatures(chassis) ==
    LET temps == chassis.thermal.temperatures IN
    AsDict([i \in DOMAIN temps |->
        <<temps[i].identity \o "@" \o chassis.identity,
          Update(_sensor2dict(temps[i],
                     {"identity", "max_reading_range_temp",
                      "min_reading_range_temp", "reading_celsius",
                      "physical_context", "sensor_number"}),
                 _sensor2dict(temps[i].status, {"state", "health"}))>>])

_get_sensors_power(chassis) ==
    LET supplies == chassis.power.power_supplies IN
    AsDict([i \in DOMAIN supplies |->
        <<supplies[i].identity \o ":" \o chassis.power.identity
              \o "@" \o chassis.identity,
          Update(_sensor2dict(supplies[i],
                     {"power_capacity_watts", "line_input_voltage",
                      "last_power_output_watts", "serial_number"}),
                 _sensor2dict(supplies[i].status, {"state", "health"}))>>])

\* the items of the storage controllers from the i-th on, in the loops' order
RECURSIVE drive_items(_, _)
drive_items(sys, i) ==
    IF i > Len(sys.simple_storage)
    THEN <<>>
    ELSE LET storage == sys.simple_storage[i] IN
         [j \in DOMAIN storage.devices |->
             <<storage.devices[j].name \o ":" \o storage.identity
                   \o "@" \o sys.identity,
               Update(_sensor2dict(storage.devices[j],
                          {"name", "model", "capacity_bytes"}),
                      _sensor2dict(storage.devices[j].status, {"state", "health"}))>>]
         \o drive_items(sys, i + 1)

_get_sensors_drive(sys) == AsDict(drive_items(sys, 1))

Categories == {"Fan", "Temperature", "Power", "Drive"}

\* what one read of a category returns
ReadCategory(category, resource) ==
    CASE category = "Fan"         -> _get_sensors_fan(resource)
      [] category = "Temperature" -> _get_sensors_temperatures(resource)
      [] category = "Power"       -> _get_sensors_power(resource)
      [] category = "Drive"       -> _get_sensors_drive(resource)

\* a failed read that empties its category instead of leaving it alone
collect_failure_empties(sensors, category, resource, failed) ==
    LET made == [c \in DOMAIN sensors \cup {category} |->
                    IF c \in DOMAIN sensors THEN sensors[c] ELSE <<>>]
    IN  IF failed
        THEN [made EXCEPT ![category] = <<>>]
        ELSE [made EXCEPT ![category] = Update(@, ReadCategory(category, resource))]

\* sensors[category].update(<read>) inside its try: the defaultdict makes the
\* key when sensors[category] is evaluated, before the read is called
collect(sensors, category, resource, failed) ==
    LET made == IF category \in DOMAIN sensors
                THEN sensors
                ELSE [c \in DOMAIN sensors \cup {category} |->
                         IF c = category THEN <<>> ELSE sensors[c]]
    IN  IF failed
        THEN made
        ELSE [made EXCEPT ![category] = Update(@, ReadCategory(category, resource))]

\* the loop over system.chassis from the i-th chassis on
RECURSIVE collect_chassis(_, _, _, _)
collect_chassis(sensors, sys, i, fails) ==
    IF i > Len(sys.chassis)
    THEN sensors
    ELSE LET chassis == sys.chassis[i]
             fan == collect(sensors, "Fan", chassis, <<"Fan", i>> \in fails)
             temp == collect(fan, "Temperature", chassis,
                             <<"Temperature", i>> \in fails)
             power == collect(temp, "Power", chassis, <<"Power", i>> \in fails)
         IN  collect_chassis(power, sys, i + 1, fails)

\* the reads a call may find failing: a category of a chassis, or the drives
Reads(sys) ==
    ({"Fan", "Temperature", "Power"} \X DOMAIN sys.chassis) \cup {<<"Drive", 0>>}

get_sensors_data(sys, fails, f) ==
    IF f = "get_system"
    THEN Outcome("RedfishError", None, <<Access("get_system", <<>>, FALSE)>>, sys)
    ELSE IF f = "read"
    THEN Outcome("SushyError", None,
                 <<Access("get_system", <<>>, TRUE),
                   Access("system.chassis", <<>>, FALSE)>>, sys)
    ELSE Outcome("ok",
                 collect(collect_chassis(<<>>, sys, 1, fails), "Drive", sys,
                         <<"Drive", 0>> \in fails),
                 <<Access("get_system", <<>>, TRUE),
                   Access("system.chassis", <<>>, TRUE)>>, sys)

GetSensorsData ==
    /\ Ready("sensors")
    /\ \E fails \in SUBSET Reads(system), f \in {"none", "get_system", "read"} :
          /\ f # "none" => fails = {}
          /\ last' = Finished("get_sensors_data", TRUE,
                              [fails |-> fails, before |-> system],
                              get_sensors_data(system, fails, f))
    /\ UNCHANGED <<focus, boot, pc, frame, system>>

----------------------------------------------------------------------------
(* The remote endpoint *)

\* the BMC, or another client of it, changes one boot setting, between two
\* calls or between the read and the write of set_boot_device
ExternalChange ==
    /\ focus = "boot"
    /\ last.op = "none"
    /\ \E b \in BootStates :
          /\ b # boot
          /\ \/ b.target = boot.target /\ b.enabled = boot.enabled
             \/ b.target = boot.target /\ b.mode = boot.mode
             \/ b.enabled = boot.enabled /\ b.mode = boot.mode
          /\ boot' = b
    /\ UNCHANGED <<focus, pc, frame, system, last>>

----------------------------------------------------------------------------

NoSystem == None

InitBoot ==
    /\ focus = "boot"
    /\ boot \in BootStates
    /\ pc = "idle"
    /\ frame = None
    /\ system = NoSystem
    /\ last = NoCall

InitIndicators ==
    /\ focus = "indicators"
    /\ boot = [target |-> None, enabled |-> None, mode |-> None]
    /\ pc = "idle"
    /\ frame = None
    /\ system \in IndicatorSystems
    /\ last = NoCall

InitSensors ==
    /\ focus = "sensors"
    /\ boot = [target |-> None, enabled |-> None, mode |-> None]
    /\ pc = "idle"
    /\ frame = None
    /\ system \in SensorSystems
    /\ last = NoCall

Init == InitBoot \/ InitIndicators \/ InitSensors

Next ==
    \/ SetBootDeviceRefused
    \/ SetBootDeviceRead
    \/ SetBootDeviceWrite
    \/ SetBootMode
    \/ GetBootDevice
    \/ GetBootMode
    \/ InjectNmi
    \/ SetIndicatorState
    \/ GetIndicatorState
    \/ GetSupportedIndicators
    \/ GetSensorsData
    \/ ExternalChange
    \/ Return

Spec == Init /\ [][Next]_vars

----------------------------------------------------------------------------
(* What the claims speak of *)

\* the remote calls that write
WriteFns == {"set_system_boot_options", "set_system_boot_source",
             "reset_system", "set_indicator_led"}

\* the places of the writes among the accesses of the pending call
Writes == {i \in DOMAIN last.calls : last.calls[i].fn \in WriteFns}

\* the places of the accesses that failed
Failures == {i \in DOMAIN last.calls : ~last.calls[i].ok}

\* the pending call got its system from get_system
GotSystem == Len(last.calls) > 0 /\ last.calls[1].ok

MutatingOps == {"set_boot_device", "set_boot_mode", "inject_nmi",
                "set_indicator_state"}

----------------------------------------------------------------------------
(* C1: no mutating operation (set_boot_device, set_boot_mode, inject_nmi,  *)
(* set_indicator_state) issues a remote write while its task holds only a  *)
(* shared lock.  The code lets set_indicator_state do so.                  *)
C1_WritesNeedExclusiveLock ==
    (last.op \in MutatingOps /\ last.shared) => Writes = {}

----------------------------------------------------------------------------
(* C2: set_boot_mode, called under the exclusive lock on a system it could *)
(* fetch: when the remote boot target or the remote override-enabled flag  *)
(* is absent it raises RedfishError naming the missing precondition,       *)
(* issues no write and leaves target, flag and mode as they were; when     *)
(* both are present and the mode is supported it issues exactly one write, *)
(* set_system_boot_source, carrying the current target, the current flag   *)
(* and the remote value that maps forward to the mode.                     *)
C2_SetBootModePreconditions ==
    (last.op = "set_boot_mode" /\ ~last.shared /\ GotSystem) =>
        LET before == last.args.before IN
        IF before.target \in {None, ""} \/ before.enabled \in {None, ""}
        THEN /\ last.exc = "RedfishError"
             /\ last.ret = (IF before.target \in {None, ""}
                            THEN "boot device is not set"
                            ELSE "boot source override is not set")
             /\ Writes = {}
             /\ boot = before
        ELSE last.args.mode \in {"uefi", "bios"} =>
                /\ Cardinality(Writes) = 1
                /\ \A i \in Writes :
                      /\ last.calls[i].fn = "set_system_boot_source"
                      /\ last.calls[i].args[1] = before.target
                      /\ last.calls[i].args[2] = before.enabled
                      /\ Get(BOOT_MODE_MAP, last.calls[i].args[3]) = last.args.mode

\* the override flag is absent, the target is not: the call failed, wrote
\* nothing
C2_Witness ==
    /\ last.op = "set_boot_mode"
    /\ ~last.shared
    /\ GotSystem
    /\ last.args.before.target = "BOOT_SOURCE_TARGET_PXE"
    /\ last.args.before.enabled = None
    /\ last.exc = "RedfishError"
    /\ Writes = {}

----------------------------------------------------------------------------
(* C3: a set_boot_device call issues exactly one remote write when it is   *)
(* made under the exclusive lock, gets its system and names a supported    *)
(* device, and none otherwise.  The write is set_system_boot_options with  *)
(* the remote target that maps forward to the device; its `enabled` is     *)
(* None exactly when the remote value that maps forward to `persistent`    *)
(* equals the override-enabled value read at the start of the call, and is *)
(* that remote value in every other case, an absent or unmapped remote     *)
(* value included.                                                         *)
C3_SetBootDeviceOneWrite ==
    last.op = "set_boot_device" =>
        IF ~last.shared /\ GotSystem
               /\ last.args.device \in {"pxe", "disk", "cdrom", "bios"}
        THEN /\ Cardinality(Writes) = 1
             /\ \A i \in Writes :
                   LET w == last.calls[i]
                       desired == IF last.args.persistent = "True"
                                  THEN "BOOT_SOURCE_ENABLED_CONTINUOUS"
                                  ELSE "BOOT_SOURCE_ENABLED_ONCE"
                   IN  /\ w.fn = "set_system_boot_options"
                       /\ Get(BOOT_DEVICE_MAP, w.args[1]) = last.args.device
                       /\ (w.args[2] = None) <=> (desired = last.args.current)
                       /\ w.args[2] # None => w.args[2] = desired
        ELSE Writes = {}

\* a write with an explicit override although the remote flag was a value
\* outside {continuous, once}
C3_Witness ==
    /\ last.op = "set_boot_device"
    /\ last.exc = "ok"
    /\ last.args.current = "BOOT_SOURCE_ENABLED_DISABLED"
    /\ last.args.persistent = "False"
    /\ Cardinality(Writes) = 1
    /\ \A i \in Writes : last.calls[i].args[2] = "BOOT_SOURCE_ENABLED_ONCE"

----------------------------------------------------------------------------
(* The pending call, when it is a get_sensors_data that returned *)

SensorsReturned == last.op = "get_sensors_data" /\ last.exc = "ok"

\* the chassis whose read of the category succeeded
Succeeded(category) ==
    {i \in DOMAIN last.args.before.chassis : <<category, i>> \notin last.args.fails}

\* the readings of a category the call collected: <<chassis, place>>, or
\* <<storage controller, place>> for the drives
Collected(category) ==
    LET sys == last.args.before IN
    CASE category = "Fan" ->
             UNION {{<<i, j>> : j \in DOMAIN sys.chassis[i].thermal.fans} :
                    i \in Succeeded("Fan")}
      [] category = "Temperature" ->
             UNION {{<<i, j>> : j \in DOMAIN sys.chassis[i].thermal.temperatures} :
                    i \in Succeeded("Temperature")}
      [] category = "Power" ->
             UNION {{<<i, j>> : j \in DOMAIN sys.chassis[i].power.power_supplies} :
                    i \in Succeeded("Power")}
      [] category = "Drive" ->
             IF <<"Drive", 0>> \in last.args.fails
             THEN {}
             ELSE UNION {{<<i, j>> : j \in DOMAIN sys.simple_storage[i].devices} :
                         i \in DOMAIN sys.simple_storage}

----------------------------------------------------------------------------
(* C4: get_sensors_data isolates failures per (category, chassis).  For a  *)
(* system with at least one chassis, each of Fan, Temperature and Power is *)
(* in the result and holds exactly the keys of the chassis whose read of   *)
(* that category succeeded (none when none succeeded), each with a reading *)
(* of such a chassis: a failed read removes or blocks no entry of another  *)
(* category or chassis.  Drive is collected once, whatever failed for the  *)
(* chassis: it holds the drives' entries, or nothing when its read failed. *)
C4_FailuresIsolated ==
    SensorsReturned =>
        LET sys == last.args.before
            ret == last.ret
        IN  /\ \A category \in {"Fan", "Temperature", "Power"} :
                  Len(sys.chassis) > 0 =>
                      /\ category \in DOMAIN ret
                      /\ DOMAIN ret[category] =
                             UNION {DOMAIN ReadCategory(category, sys.chassis[i]) :
                                    i \in Succeeded(category)}
                      /\ \A k \in DOMAIN ret[category] :
                            \E i \in Succeeded(category) :
                                /\ k \in DOMAIN ReadCategory(category, sys.chassis[i])
                                /\ ret[category][k] =
                                       ReadCategory(category, sys.chassis[i])[k]
            /\ "Drive" \in DOMAIN ret
            /\ DOMAIN ret["Drive"] =
                   (IF <<"Drive", 0>> \in last.args.fails
                    THEN {}
                    ELSE DOMAIN ReadCategory("Drive", sys))

\* Power failed for the first of two chassis, which has power supplies; its
\* Fan and Temperature entries and the other chassis's Power entry are there
C4_Witness ==
    /\ SensorsReturned
    /\ Len(last.args.before.chassis) = 2
    /\ Len(last.args.before.chassis[1].power.power_supplies) > 0
    /\ <<"Power", 1>> \in last.args.fails
    /\ <<"Fan", 1>> \notin last.args.fails
    /\ <<"Temperature", 1>> \notin last.args.fails
    /\ <<"Power", 2>> \notin last.args.fails
    /\ DOMAIN ReadCategory("Fan", last.args.before.chassis[1])
           \subseteq DOMAIN last.ret["Fan"]
    /\ DOMAIN last.ret["Temperature"] # {}
    /\ DOMAIN last.ret["Power"] # {}

----------------------------------------------------------------------------
(* C5: the mapping get_sensors_data returns always has the four keys Fan,  *)
(* Temperature, Power and Drive, a category without readings being there   *)
(* with an empty mapping.  The code makes the first three keys only inside *)
(* its loop over the chassis.                                              *)
C5_AllCategoriesPresent ==
    SensorsReturned => Categories \subseteq DOMAIN last.ret

----------------------------------------------------------------------------
(* C6: sensor keys never collide: each category of the result has exactly  *)
(* as many entries as readings were collected for it, no reading           *)
(* overwriting another.  The code joins identifiers with separators the    *)
(* identifiers may contain, and keys a drive by its name.                  *)
C6_KeysNeverCollide ==
    SensorsReturned =>
        \A category \in DOMAIN last.ret :
            Cardinality(DOMAIN last.ret[category]) = Cardinality(Collected(category))

----------------------------------------------------------------------------
(* The pending call, when it is a set_indicator_state *)

\* the identifiers of the resources of a component kind
KindUuids(sys, component) ==
    CASE component = "system"  -> {sys.uuid}
      [] component = "chassis" -> {sys.chassis[i].uuid : i \in DOMAIN sys.chassis}
      [] component = "disk"    ->
             IF sys.simple_storage.present
             THEN {sys.simple_storage.drives[i].uuid :
                      i \in DOMAIN sys.simple_storage.drives}
             ELSE {}
      [] OTHER -> {}

----------------------------------------------------------------------------
----------------------------------------------------------------------------
(* The pending call, when it is a get_supported_indicators that returned *)

IndicatorsReturned == last.op = "get_supported_indicators" /\ last.exc = "ok"

\* the identifiers of the listed resources that report an indicator
Capable(resources) ==
    {resources[i].uuid : i \in {j \in DOMAIN resources :
                                   resources[j].indicator_led \notin {None, ""}}}

\* what the result holds for a component kind: nothing, or a mapping of these
\* identifiers
Reported(sys, fails, kind) ==
    CASE kind = "system" ->
             [key |-> "system" \notin fails /\ sys.indicator_led \notin {None, ""},
              ids |-> {sys.uuid}]
      [] kind = "chassis" ->
             [key |-> "chassis" \notin fails /\ Len(sys.chassis) > 0,
              ids |-> Capable(sys.chassis)]
      [] kind = "disk" ->
             [key |-> /\ "disk" \notin fails
                      /\ sys.simple_storage.present
                      /\ Len(sys.simple_storage.drives) > 0,
              ids |-> Capable(sys.simple_storage.drives)]

----------------------------------------------------------------------------
(* C8: get_supported_indicators(component=DISK) returns a mapping with no  *)
(* key but DISK, whose value maps the identifier of every drive that       *)
(* reports an indicator, and of no other resource, to the descriptor       *)
(* {readonly: false, states: {ON, OFF, BLINKING}}; the DISK key is there   *)
(* when the drives were read and there is one.  A call filtered to one     *)
(* kind returns no key of another kind, and an unfiltered call reports     *)
(* SYSTEM, CHASSIS and DISK alike.                                         *)
C8_SupportedIndicators ==
    IndicatorsReturned =>
        LET sys == last.args.before
            ret == last.ret
            asked == IF last.args.component = None
                     THEN Components
                     ELSE {last.args.component}
        IN  /\ DOMAIN ret \subseteq asked
            /\ \A kind \in asked :
                  LET want == Reported(sys, last.args.fails, kind) IN
                  /\ kind \in DOMAIN ret <=> want.key
                  /\ kind \in DOMAIN ret =>
                        /\ DOMAIN ret[kind] = want.ids
                        /\ \A u \in DOMAIN ret[kind] :
                              /\ ret[kind][u].readonly = FALSE
                              /\ {ret[kind][u].states[n] :
                                     n \in DOMAIN ret[kind][u].states}
                                     = {"ON", "OFF", "BLINKING"}

\* a call for the drives of a system that has a drive with an indicator, and
\* a chassis and a system indicator the result leaves out
C8_Witness ==
    /\ IndicatorsReturned
    /\ last.args.component = "disk"
    /\ DOMAIN last.ret = {"disk"}
    /\ DOMAIN last.ret["disk"] = {"u2"}
    /\ last.args.before.indicator_led = "INDICATOR_LED_LIT"
    /\ Capable(last.args.before.chassis) # {}

----------------------------------------------------------------------------
(* C9: the four translation tables are bijections on their domains: for    *)
(* every abstract value v of BootDevice, BootMode, Persistence and         *)
(* IndicatorState the reverse table has v and the forward table maps       *)
(* reverse[v] back to v, and no two remote values map forward to the same  *)
(* abstract value.                                                         *)
Bijection(forward, reverse, abstract) ==
    /\ \A v \in abstract :
          /\ Has(reverse, v)
          /\ Has(forward, Get(reverse, v))
          /\ Get(forward, Get(reverse, v)) = v
    /\ \A i, j \in DOMAIN forward :
          forward[i][2] = forward[j][2] => forward[i][1] = forward[j][1]

C9_TablesAreBijections ==
    /\ Bijection(BOOT_DEVICE_MAP, BOOT_DEVICE_MAP_REV,
                 {"pxe", "disk", "cdrom", "bios"})
    /\ Bijection(BOOT_MODE_MAP, BOOT_MODE_MAP_REV, {"uefi", "bios"})
    /\ Bijection(BOOT_DEVICE_PERSISTENT_MAP, BOOT_DEVICE_PERSISTENT_MAP_REV,
                 {"True", "False"})
    /\ Bijection(INDICATOR_MAP, INDICATOR_MAP_REV,
                 {"ON", "OFF", "BLINKING", "UNKNOWN"})
    /\ (last.op = "get_boot_device" /\ last.exc = "ok"
            /\ last.ret.boot_device # None) =>
           Get(BOOT_DEVICE_MAP_REV, last.ret.boot_device) = boot.target

\* get_boot_device reads back the device a set_boot_device wrote
C9_Witness ==
    /\ last.op = "get_boot_device"
    /\ last.exc = "ok"
    /\ last.ret.boot_device = "cdrom"
    /\ last.ret.persistent = "True"
    /\ boot.target = Get(BOOT_DEVICE_MAP_REV, "cdrom")
    /\ boot.enabled = Get(BOOT_DEVICE_PERSISTENT_MAP_REV, "True")

----------------------------------------------------------------------------
(* C10: in set_boot_device, set_boot_mode, inject_nmi, set_indicator_state,*)
(* get_indicator_state, get_boot_device and get_boot_mode a failure of a   *)
(* remote access, the fetch of the system that reads the current boot      *)
(* state included, reaches the caller as RedfishError and never as sushy's *)
(* own error; the failed access is the last access of the call: nothing is *)
(* retried.                                                                *)
SingleTargetOps == MutatingOps \cup {"get_indicator_state", "get_boot_device",
                                     "get_boot_mode"}

C10_RemoteFailuresWrapped ==
    last.op \in SingleTargetOps =>
        /\ last.exc # "SushyError"
        /\ Failures # {} =>
              /\ last.exc = "RedfishError"
              /\ Failures = {Len(last.calls)}
              /\ \A i, j \in DOMAIN last.calls :
                    (last.calls[i].fn = last.calls[j].fn
                         /\ last.calls[i].args = last.calls[j].args) => i = j

\* the write of set_boot_device failed after the system was read
C10_Witness ==
    /\ last.op = "set_boot_device"
    /\ Len(last.calls) = 2
    /\ last.calls[1].fn = "get_system" /\ last.calls[1].ok
    /\ last.calls[2].fn = "set_system_boot_options" /\ ~last.calls[2].ok
    /\ last.exc = "RedfishError"

----------------------------------------------------------------------------
(* C11: remote errors during the aggregation operations never propagate.   *)
(* Once the system is fetched, get_sensors_data and                        *)
(* get_supported_indicators return a result whichever remote read fails,   *)
(* the read of the system's chassis list included; and in                  *)
(* get_supported_indicators every branch asked for whose own read did not  *)
(* fail is attempted and reported, whichever other branch failed.  The     *)
(* code of get_sensors_data reads system.chassis outside every try.        *)
AggregationOps == {"get_sensors_data", "get_supported_indicators"}

C11_AggregationsNeverPropagate ==
    (last.op \in AggregationOps /\ GotSystem) =>
        /\ last.exc = "ok"
        /\ last.op = "get_supported_indicators" =>
              LET asked == IF last.args.component = None
                           THEN Components
                           ELSE {last.args.component}
              IN  \A kind \in asked \ last.args.fails :
                      /\ \E i \in DOMAIN last.calls :
                            /\ last.calls[i].ok
                            /\ last.calls[i].fn =
                                   (CASE kind = "chassis" -> "system.chassis"
                                      [] kind = "system"  -> "system.indicator_led"
                                      [] kind = "disk"    -> "system.simple_storage")
                      /\ kind \in DOMAIN last.ret <=>
                             Reported(last.args.before, last.args.fails, kind).key

----------------------------------------------------------------------------
(* C12: a setter called with an abstract value outside its enum domain     *)
(* (set_boot_device with an unsupported device; set_boot_mode with an      *)
(* unsupported mode, the boot target and override being set;               *)
(* set_indicator_state with an unsupported state on an existing indicator) *)
(* fails with InvalidParameterValue, issues no remote write and leaves the *)
(* remote state unchanged.  The calls meant hold the exclusive lock and    *)
(* got the system.  The code subscripts the reverse table, and a missing   *)
(* key raises KeyError.                                                    *)
OutsideDomain ==
    /\ ~last.shared
    /\ GotSystem
    /\ Failures = {}
    /\ \/ /\ last.op = "set_boot_device"
          /\ last.args.device \notin {"pxe", "disk", "cdrom", "bios"}
       \/ /\ last.op = "set_boot_mode"
          /\ last.args.mode \notin {"uefi", "bios"}
          /\ last.args.before.target \notin {None, ""}
          /\ last.args.before.enabled \notin {None, ""}
       \/ /\ last.op = "set_indicator_state"
          /\ last.args.state \notin {"ON", "OFF", "BLINKING", "UNKNOWN"}
          /\ last.args.indicator \in
                 KindUuids(last.args.before, last.args.component)

C12_InvalidValuesRejected ==
    OutsideDomain =>
        /\ last.exc = "InvalidParameterValue"
        /\ Writes = {}
        /\ last.op = "set_boot_mode" => boot = last.args.before
        /\ last.op = "set_indicator_state" => system = last.args.before

----------------------------------------------------------------------------
(* C13: the postcondition of set_boot_device(d, p) under serialization.    *)
(* Every successful call ends with the remote boot target = reverse(d),    *)
(* whatever the remote state was.  When the remote override-enabled value  *)
(* at the write is the one the call read (nothing changed it in between),  *)
(* the call also ends with remote override-enabled = reverse(p), a         *)
(* get_boot_device that follows returns {boot_device: d, persistent: p},   *)
(* and the same call repeated leaves the remote state as it is.  So the    *)
(* postcondition fails only when a change of the override-enabled value    *)
(* comes between the read and the write.                                   *)
SetBootDeviceSucceeds ==
    /\ pc = "sbd_write"
    /\ last'.op = "set_boot_device"
    /\ last'.exc = "ok"

SetBootDevicePostcondition ==
    SetBootDeviceSucceeds =>
        LET d == frame.device
            p == frame.persistent
        IN  /\ boot'.target = Lookup(BOOT_DEVICE_MAP_REV, d)
            /\ boot.enabled = frame.current =>
                  /\ boot'.enabled = Lookup(BOOT_DEVICE_PERSISTENT_MAP_REV, p)
                  /\ get_boot_device(boot', "none").exc = "ok"
                  /\ get_boot_device(boot', "none").ret =
                         [boot_device |-> d, persistent |-> p]
                  /\ LET again == set_boot_device_write(
                                      boot', set_boot_device_read(boot', d, p), "none")
                     IN  again.exc = "ok" /\ again.remote = boot'

C13_SerializedPostcondition == [][SetBootDevicePostcondition]_vars

\* a call that found the override already as desired and wrote the target
\* alone
C13_Witness ==
    /\ last.op = "set_boot_device"
    /\ last.exc = "ok"
    /\ last.args.device = "disk"
    /\ last.args.persistent = "True"
    /\ last.args.current = "BOOT_SOURCE_ENABLED_CONTINUOUS"
    /\ last.args.enabled = None
    /\ boot.target = "BOOT_SOURCE_TARGET_HDD"
    /\ boot.enabled = "BOOT_SOURCE_ENABLED_CONTINUOUS"

====
